---- MODULE Spec2Model ----
(***************************************************************************)
(* OneLifeTime (src/OneLifeTime.py): the life-expectancy projection run by *)
(* the "Calculate My Life Time" button and the JavaScript countdowns it    *)
(* embeds in the page.                                                     *)
(*                                                                         *)
(* Representation.                                                         *)
(*  - Life expectancies are numbers with one decimal (as in the fallback   *)
(*    table, lines 104-108) and are held in TENTHS of a year: 8.1 is 81.   *)
(*    With one decimal the float arithmetic of lines 233-246 agrees with   *)
(*    the exact one: a sum differs from its exact value by far less than   *)
(*    the microsecond timedelta rounds to, the fractional days (tenths *   *)
(*    36.525 days) are a whole number of seconds, and a sum of exactly 0.1 *)
(*    gives 0.1 whether or not the float comparison of line 235 fires.     *)
(*  - A naive datetime is a record [y, m, d, sod] (sod: second of the day) *)
(*    and, as an instant, a number of seconds since 2000-01-01T00:00:00.   *)
(*    The clock alone carries microseconds: [s, us].                       *)
(*  - The three scripts share one window and one document: the slot names  *)
(*    (globalCountdownInterval, projectionInterval_<prefix>) and element   *)
(*    ids (global_timer, <prefix>_cell_<idx>) are what keeps them apart.   *)
(*    A button press either finds the window of the previous press, as the *)
(*    comments of lines 283 and 391 suppose, or a freshly loaded one; each *)
(*    run of a script has its own countG / entries_<prefix>.               *)
(*  - The document is the environment's: an element can leave it at any    *)
(*    time, one at a time or all at once when the script reruns without    *)
(*    the button pressed. Nothing in the program runs at that moment.      *)
(***************************************************************************)
EXTENDS Integers, Sequences, FiniteSets, TLC

VARIABLES
    form,      \* the widgets' values (lines 150-187)
    calc,      \* the values computed by the last button press (lines 196-255, 320-336)
    handle,    \* window.globalCountdownInterval / window.projectionInterval_<prefix>
    timers,    \* every interval created in this window: its closure and whether it is live
    dom,       \* the elements with an id: their innerText, or Absent
    runs       \* number of button presses so far

vars == <<form, calc, handle, timers, dom, runs>>

----------------------------------------------------------------------------
(* Bounds of the model *)

MaxTicks == 2       \* callbacks run after one button press (see MayRun)
MaxRuns == 2        \* button presses per behaviour
TopN == 2           \* rows per comparison table (head(5) in lines 310-311)
MaxRemovals == 1    \* elements removed one by one after one button press

(* Program constants *)

SECONDS_IN_MINUTE == 60
MINUTES_IN_HOUR == 60
HOURS_IN_DAY == 24
DAYS_IN_YEAR_AVG_x100 == 36525     \* 365.25, in hundredths of a day

SecondsInDay == SECONDS_IN_MINUTE * MINUTES_IN_HOUR * HOURS_IN_DAY
\* seconds in one tenth of an average year: 0.1 * 365.25 * 86400 = 3155760
SecondsInTenthYear == ((SecondsInDay \div 100) * DAYS_IN_YEAR_AVG_x100) \div 10

----------------------------------------------------------------------------
(* The calendar, as datetime / dateutil.relativedelta compute it *)

IsLeap(y) == (y % 4 = 0) /\ ((y % 100 # 0) \/ (y % 400 = 0))

DaysInMonth(y, m) ==
    CASE m \in {1, 3, 5, 7, 8, 10, 12} -> 31
      [] m \in {4, 6, 9, 11} -> 30
      [] OTHER -> IF IsLeap(y) THEN 29 ELSE 28

DaysBeforeYear(y) ==
    (y - 1) * 365 + ((y - 1) \div 4) - ((y - 1) \div 100) + ((y - 1) \div 400)

RECURSIVE DaysBeforeMonth(_, _)
DaysBeforeMonth(y, m) ==
    IF m = 1 THEN 0 ELSE DaysBeforeMonth(y, m - 1) + DaysInMonth(y, m - 1)

\* date.toordinal(): 0001-01-01 is day 1
ToOrdinal(y, m, d) == DaysBeforeYear(y) + DaysBeforeMonth(y, m) + d

\* a naive datetime as seconds since 2000-01-01T00:00:00
NaiveSeconds(dt) ==
    (ToOrdinal(dt.y, dt.m, dt.d) - ToOrdinal(2000, 1, 1)) * SecondsInDay + dt.sod

Min(a, b) == IF a <= b THEN a ELSE b

\* dt + relativedelta(years=n): the year moves, the day is cut to the month's length
AddYears(dt, n) ==
    [dt EXCEPT !.y = dt.y + n,
               !.d = Min(dt.d, DaysInMonth(dt.y + n, dt.m))]

\* a - b for an instant a in whole seconds and the clock reading b = [s, us]:
\* a timedelta normalised to 0 <= us < 10^6
SubClock(a, b) ==
    IF b.us = 0 THEN [s |-> a - b.s, us |-> 0]
                ELSE [s |-> a - b.s - 1, us |-> 1000000 - b.us]

\* b - a, the same way
ClockSub(b, a) == [s |-> b.s - a, us |-> b.us]

\* int(td.total_seconds()): int() cuts towards zero
IntTotalSeconds(td) ==
    IF td.s >= 0 \/ td.us = 0 THEN td.s ELSE td.s + 1

----------------------------------------------------------------------------
(* The life-expectancy table and the widgets *)

\* life_expectancy_df: one row per country, figures in tenths of a year. The rows'
\* positions 1..Len stand for the DataFrame's index labels. No two rows tie in a
\* column, so the order sort_values gives is determined.
life_expectancy_df ==
    << [Country |-> "A", Females |-> 5,   Males |-> 0],
       [Country |-> "B", Females |-> 81,  Males |-> 50],
       [Country |-> "C", Females |-> 125, Males |-> 120],
       [Country |-> "D", Females |-> 200, Males |-> 196] >>

Idx == 1..Len(life_expectancy_df)

GymSince == {"Less than a year", "Between 1 and 3 years", "More than 3 years"}
SmokeSince == {"Less than a year", "Between 1 and 5 years",
               "Between 5 and 10 years", "More than 10 years"}

\* gym_choice with gym_since, as lines 168-174 leave them: gym_since is None
\* unless the answer is Yes
GymInputs ==
    {[choice |-> "No", since |-> "None"]}
        \cup {[choice |-> "Yes", since |-> g] : g \in GymSince}

\* smoke_choice with smoke_since (lines 177-184)
SmokeInputs ==
    {[choice |-> "No", since |-> "None"]}
        \cup {[choice |-> "Yes", since |-> g] : g \in SmokeSince}

\* base_life_expectancy (lines 191-192)
base_life_expectancy(f) ==
    LET country_data_row ==
            life_expectancy_df[CHOOSE i \in Idx : life_expectancy_df[i].Country = f.country]
    IN  IF f.sex = "Male" THEN country_data_row.Males ELSE country_data_row.Females

----------------------------------------------------------------------------
(* The calculation of lines 206-255, in whole years (adjustment), tenths of *)
(* a year (life expectancies) and seconds                                   *)

\* lines 209-216
gym_adjustment(gym_choice, gym_since) ==
    IF gym_choice = "Yes"
    THEN IF gym_since = "Less than a year" THEN 1
         ELSE IF gym_since = "Between 1 and 3 years" THEN 4
         ELSE 7
    ELSE 0

\* the smoking block with the penalties of lines 223 and 225 both -3
smoke_adjustment_swapped(smoke_choice, smoke_since) ==
    IF smoke_choice = "Yes"
    THEN IF smoke_since = "Less than a year" THEN -1
         ELSE IF smoke_since = "Between 1 and 5 years" THEN -3
         ELSE IF smoke_since = "Between 5 and 10 years" THEN -3
         ELSE -10
    ELSE 0

\* lines 218-227
smoke_adjustment(smoke_choice, smoke_since) ==
    IF smoke_choice = "Yes"
    THEN IF smoke_since = "Less than a year" THEN -1
         ELSE IF smoke_since = "Between 1 and 5 years" THEN -3
         ELSE IF smoke_since = "Between 5 and 10 years" THEN -5
         ELSE -10
    ELSE 0

\* lines 229-231
cancer_adjustment(cancer_choice) ==
    IF cancer_choice = "Yes" THEN -8 ELSE 0

\* lines 207-231: the three blocks add to one accumulator, in this order
life_expectancy_adjustment(f) ==
    LET a0 == 0
        a1 == a0 + gym_adjustment(f.gym.choice, f.gym.since)
        a2 == a1 + smoke_adjustment(f.smoke.choice, f.smoke.since)
        a3 == a2 + cancer_adjustment(f.cancer_choice)
    IN  a3

\* lines 233-236 without the floor
effective_life_expectancy_nofloor(base, adjustment) == base + 10 * adjustment

\* lines 233-236 with the test of line 235 against 1 year
effective_life_expectancy_below_one(base, adjustment) ==
    LET e == base + 10 * adjustment
    IN  IF e < 10 THEN 1 ELSE e

\* lines 233-236, in tenths: 0.1 year is 1
effective_life_expectancy(base, adjustment) ==
    LET e == base + 10 * adjustment
    IN  IF e < 1 THEN 1 ELSE e

\* the projection with every year, whole or not, taken as 365.25 days
projected_death_datetime_flat(birth, effective) ==
    NaiveSeconds(birth) + effective * SecondsInTenthYear

\* lines 241-247: the naive datetime of the projected death, in seconds
projected_death_datetime(birth, effective) ==
    LET years_component == effective \div 10
        days_component_seconds == (effective - 10 * years_component) * SecondsInTenthYear
    IN  NaiveSeconds(AddYears(birth, years_component)) + days_component_seconds

\* line 250 with floor in place of int()
seconds_lived_floor(birth, utcoffset, now) ==
    ClockSub(now, NaiveSeconds(birth) - utcoffset).s

\* line 250; both datetimes are aware: birth at its own UTC offset
seconds_lived(birth, utcoffset, now) ==
    IntTotalSeconds(ClockSub(now, NaiveSeconds(birth) - utcoffset))

\* line 251 without lines 254-255
seconds_left_unclamped(death, utcoffset, now) ==
    IntTotalSeconds(SubClock(death - utcoffset, now))

\* lines 251-255; the projected datetime keeps the birth's tzinfo
seconds_left(death, utcoffset, now) ==
    LET s == IntTotalSeconds(SubClock(death - utcoffset, now))
    IN  IF s < 0 THEN 0 ELSE s

----------------------------------------------------------------------------
(* The comparison tables: lines 307-346 *)

sort_column(f) ==
    IF f.sex = "Male" THEN "Males Life Expectancy" ELSE "Females Life Expectancy"

Column(i, column) ==
    IF column = "Males Life Expectancy"
    THEN life_expectancy_df[i].Males ELSE life_expectancy_df[i].Females

\* df.sort_values(column, ascending=...): the index labels in sorted order
RECURSIVE sort_values(_, _, _)
sort_values(S, column, ascending) ==
    IF S = {} THEN <<>>
    ELSE LET i == CHOOSE i \in S : \A j \in S :
                      IF ascending THEN Column(i, column) <= Column(j, column)
                                   ELSE Column(i, column) >= Column(j, column)
         IN  <<i>> \o sort_values(S \ {i}, column, ascending)

\* .head(n)
head(seq, n) == SubSeq(seq, 1, Min(n, Len(seq)))

top_5_countries(f) == head(sort_values(Idx, sort_column(f), FALSE), TopN)
bottom_5_countries(f) == head(sort_values(Idx, sort_column(f), TRUE), TopN)

\* element ids: 'global_timer' and f"{prefix_key}_cell_{idx}"
GlobalTimerId == <<"global_timer", 0>>
cell_unique_id(prefix_key, idx) == <<prefix_key, idx>>

Prefixes == {"top_countries", "bottom_countries"}
ElemIds == {GlobalTimerId} \cup {cell_unique_id(p, i) : p \in Prefixes, i \in Idx}

\* line 322 without the lifestyle adjustment
current_le_unadjusted(row_base, adjustment) ==
    IF row_base < 1 THEN 1 ELSE row_base

\* lines 322-323
current_le(row_base, adjustment) ==
    LET e == row_base + 10 * adjustment
    IN  IF e < 1 THEN 1 ELSE e

\* lines 326-332
projected_dt_country(birth, le) ==
    LET years_part == le \div 10
        days_part_seconds == (le - 10 * years_part) * SecondsInTenthYear
    IN  NaiveSeconds(AddYears(birth, years_part)) + days_part_seconds

\* lines 335-336
seconds_left_country(projected, utcoffset, now) ==
    LET s == IntTotalSeconds(SubClock(projected - utcoffset, now))
    IN  IF s < 0 THEN 0 ELSE s

\* one pass of the loop of lines 320-346
projection_row(f, now, adjustment, prefix_key, idx) ==
    LET le == current_le(Column(idx, sort_column(f)), adjustment)
        dt == projected_dt_country(f.birth, le)
    IN  [idx |-> idx,
         Country |-> life_expectancy_df[idx].Country,
         current_le |-> le,
         projected_dt_country |-> dt,
         seconds_left_country |-> seconds_left_country(dt, f.utcoffset, now),
         id |-> cell_unique_id(prefix_key, idx)]

projection_rows(f, now, adjustment, df_slice, prefix_key) ==
    [k \in 1..Len(df_slice) |-> projection_row(f, now, adjustment, prefix_key, df_slice[k])]

\* everything the button press computes (lines 196-255 and both tables)
Calculation(f, now) ==
    LET adjustment == life_expectancy_adjustment(f)
        effective == effective_life_expectancy(base_life_expectancy(f), adjustment)
        death == projected_death_datetime(f.birth, effective)
    IN  [done |-> TRUE, form |-> f, now |-> now,
         base |-> base_life_expectancy(f),
         adjustment |-> adjustment,
         effective |-> effective,
         death |-> death,
         seconds_lived |-> seconds_lived(f.birth, f.utcoffset, now),
         seconds_left |-> seconds_left(death, f.utcoffset, now),
         top |-> projection_rows(f, now, adjustment, top_5_countries(f), "top_countries"),
         bottom |-> projection_rows(f, now, adjustment, bottom_5_countries(f),
                                    "bottom_countries")]

NoCalculation == [done |-> FALSE]

----------------------------------------------------------------------------
(* The page: elements, window slots and interval timers *)

GlobalSlot == "globalCountdownInterval"
\* window.projectionInterval_<prefix_key> is named by its prefix
Slots == {GlobalSlot} \cup Prefixes

AbsentElement == [present |-> FALSE, n |-> 0, fmt |-> "none"]

\* an element's text: the number shown and how it is grouped.
\*   "py_space": f"{n:,}".replace(",", " ")   (line 268)
\*   "py_comma": f"{n:,}"                      (line 342)
\*   "fr-FR":    n.toLocaleString('fr-FR')     (lines 292, 401)
Text(n, fmt) == [present |-> TRUE, n |-> n, fmt |-> fmt]

\* an interval and the variables its callback closes over. seeds, ticks and late
\* are history: the values the counters started from, the number of times the
\* callback ran, and per counter the runs that found its element missing.
NewInterval(slot, entries) ==
    [slot |-> slot, live |-> TRUE, entries |-> entries,
     seeds |-> [k \in DOMAIN entries |-> entries[k].cnt],
     ticks |-> 0,
     late |-> [k \in DOMAIN entries |-> 0]]

\* setInterval: the new interval's id is its position
setInterval(ts, interval) == Append(ts, interval)

\* clearInterval(id): nothing happens for an id that names no interval
clearInterval(ts, id) ==
    IF id \in 1..Len(ts) THEN [ts EXCEPT ![id].live = FALSE] ELSE ts

\* the script without lines 284-286 / 392-394
run_script_noclear(w, slot, entries) ==
    LET created == setInterval(w.timers, NewInterval(slot, entries))
    IN  [w EXCEPT !.handle[slot] = Len(created), !.timers = created]

\* lines 282-287 and 390-395: a script starts its interval
run_script(w, slot, entries) ==
    LET cleared == IF w.handle[slot] # 0
                   THEN clearInterval(w.timers, w.handle[slot])
                   ELSE w.timers
        created == setInterval(cleared, NewInterval(slot, entries))
    IN  [w EXCEPT !.handle[slot] = Len(created), !.timers = created]

\* A cleared interval never fires again and nothing refers to its closure: at the
\* next button press only its id is kept.
Released(slot) ==
    [slot |-> slot, live |-> FALSE, entries |-> <<>>, seeds |-> <<>>,
     ticks |-> 0, late |-> <<>>]

RECURSIVE CollectedUpTo(_, _)
CollectedUpTo(ts, n) ==
    IF n = 0 THEN <<>>
    ELSE Append(CollectedUpTo(ts, n - 1),
                IF ts[n].live THEN ts[n] ELSE Released(ts[n].slot))

collected(ts) == CollectedUpTo(ts, Len(ts))

RECURSIVE TicksUpTo(_, _)
TicksUpTo(ts, n) == IF n = 0 THEN 0 ELSE TicksUpTo(ts, n - 1) + ts[n].ticks

\* callbacks run since the last button press
TotalTicks(ts) == TicksUpTo(ts, Len(ts))

\* let countG = {seconds_left} (line 282)
global_entries(c) == << [id |-> GlobalTimerId, cnt |-> c.seconds_left] >>

\* js_entries_for_interval (line 346)
js_entries_for_interval(rows) ==
    [k \in DOMAIN rows |-> [id |-> rows[k].id, cnt |-> rows[k].seconds_left_country]]

\* the elements the three components render (lines 280, 342)
rendered(c) ==
    [e \in ElemIds |->
        IF e = GlobalTimerId THEN Text(c.seconds_left, "py_space")
        ELSE IF \E k \in DOMAIN c.top : c.top[k].id = e
             THEN LET k == CHOOSE k \in DOMAIN c.top : c.top[k].id = e
                  IN  Text(c.top[k].seconds_left_country, "py_comma")
        ELSE IF \E k \in DOMAIN c.bottom : c.bottom[k].id = e
             THEN LET k == CHOOSE k \in DOMAIN c.bottom : c.bottom[k].id = e
                  IN  Text(c.bottom[k].seconds_left_country, "py_comma")
        ELSE AbsentElement]

\* line 288 without line 289
decrement_countG_noclamp(countG) == countG - 1

\* lines 288-289
decrement_countG(countG) ==
    LET c == countG - 1 IN IF c < 0 THEN 0 ELSE c

\* lines 397-398
decrement_cnt(cnt) ==
    LET c == cnt - 1 IN IF c < 0 THEN 0 ELSE c

\* the callback without its else branch (lines 293-296)
global_callback_nocancel(st, id) ==
    LET countG == decrement_countG(st.timers[id].entries[1].cnt)
        timerElement == st.dom[GlobalTimerId]
        counted == [st.timers EXCEPT ![id].entries[1].cnt = countG,
                                     ![id].ticks = @ + 1,
                                     ![id].late[1] =
                                         IF timerElement.present THEN @ ELSE @ + 1]
    IN  IF timerElement.present
        THEN [st EXCEPT !.timers = counted,
                        !.dom[GlobalTimerId] = Text(countG, "fr-FR")]
        ELSE [st EXCEPT !.timers = counted]

\* lines 287-297: the callback of the global countdown's interval
global_callback(st, id) ==
    LET countG == decrement_countG(st.timers[id].entries[1].cnt)
        timerElement == st.dom[GlobalTimerId]
        counted == [st.timers EXCEPT ![id].entries[1].cnt = countG,
                                     ![id].ticks = @ + 1,
                                     ![id].late[1] =
                                         IF timerElement.present THEN @ ELSE @ + 1]
    IN  IF timerElement.present
        THEN [st EXCEPT !.timers = counted,
                        !.dom[GlobalTimerId] = Text(countG, "fr-FR")]
        ELSE [st EXCEPT !.timers = clearInterval(counted, st.handle[GlobalSlot])]

\* the body with line 404 clearing the global countdown's slot
for_each_body_wrong_slot(st, id, prefix_key, k) ==
    LET e == st.timers[id].entries[k]
        cnt == decrement_cnt(e.cnt)
        element == st.dom[e.id]
        counted == [st.timers EXCEPT ![id].entries[k].cnt = cnt,
                                     ![id].late[k] =
                                         IF element.present THEN @ ELSE @ + 1]
    IN  IF element.present
        THEN [st EXCEPT !.timers = counted, !.dom[e.id] = Text(cnt, "fr-FR")]
        ELSE [st EXCEPT !.timers = clearInterval(counted, st.handle[GlobalSlot])]

\* the body without its else branch (lines 402-405)
for_each_body_nocancel(st, id, prefix_key, k) ==
    LET e == st.timers[id].entries[k]
        cnt == decrement_cnt(e.cnt)
        element == st.dom[e.id]
        counted == [st.timers EXCEPT ![id].entries[k].cnt = cnt,
                                     ![id].late[k] =
                                         IF element.present THEN @ ELSE @ + 1]
    IN  IF element.present
        THEN [st EXCEPT !.timers = counted, !.dom[e.id] = Text(cnt, "fr-FR")]
        ELSE [st EXCEPT !.timers = counted]

\* lines 396-406: the body of forEach for entry k
for_each_body(st, id, prefix_key, k) ==
    LET e == st.timers[id].entries[k]
        cnt == decrement_cnt(e.cnt)
        element == st.dom[e.id]
        counted == [st.timers EXCEPT ![id].entries[k].cnt = cnt,
                                     ![id].late[k] =
                                         IF element.present THEN @ ELSE @ + 1]
    IN  IF element.present
        THEN [st EXCEPT !.timers = counted, !.dom[e.id] = Text(cnt, "fr-FR")]
        ELSE [st EXCEPT !.timers = clearInterval(counted, st.handle[prefix_key])]

\* entries.forEach (lines 396-406): the body for entry k, then the entries after
\* it in the state the body left
RECURSIVE for_each(_, _, _, _)
for_each(st, id, prefix_key, k) ==
    IF k > Len(st.timers[id].entries) THEN st
    ELSE CHOOSE r \in {for_each(x, id, prefix_key, k + 1) :
                           x \in {for_each_body(st, id, prefix_key, k)}} : TRUE

\* lines 395-407: the callback of a table's interval
table_callback(st, id) ==
    for_each([st EXCEPT !.timers[id].ticks = @ + 1], id, st.timers[id].slot, 1)

----------------------------------------------------------------------------
(* Inputs: what the user enters and what the clock reads *)

Leap0229 == [y |-> 2000, m |-> 2, d |-> 29, sod |-> 0]

\* birth_date with birth_time (lines 152-153, 199)
Births ==
    { Leap0229,
      [y |-> 2001, m |-> 3, d |-> 1,  sod |-> 0],
      [y |-> 2003, m |-> 12, d |-> 31, sod |-> 86340] }

\* the UTC offset pytz gives the birth datetime in the chosen time zone (lines 198-199)
Offsets == {0, 19800}

Countries == {life_expectancy_df[i].Country : i \in Idx}

AllForms ==
    [country : Countries, sex : {"Male", "Female"}, birth : Births,
     utcoffset : Offsets, gym : GymInputs, smoke : SmokeInputs,
     cancer_choice : {"No", "Yes"}]

\* the forms of the specification with the timers
Forms ==
    { [country |-> "B", sex |-> "Male", birth |-> Leap0229, utcoffset |-> 0,
       gym |-> [choice |-> "No", since |-> "None"],
       smoke |-> [choice |-> "No", since |-> "None"],
       cancer_choice |-> "Yes"],
      [country |-> "A", sex |-> "Female", birth |-> Leap0229, utcoffset |-> 0,
       gym |-> [choice |-> "Yes", since |-> "More than 3 years"],
       smoke |-> [choice |-> "Yes", since |-> "Between 1 and 5 years"],
       cancer_choice |-> "No"] }

\* the instant at which a life of 0.1 year that began at Leap0229 (UTC) ends
ShortLifeEnd == NaiveSeconds(Leap0229) + SecondsInTenthYear

\* datetime.now(user_timezone) (line 200), as an absolute instant
Clock ==
    { [s |-> ShortLifeEnd - 2, us |-> 0],
      [s |-> ShortLifeEnd - 2, us |-> 500000],
      [s |-> ShortLifeEnd + 5, us |-> 0] }

AllClock ==
    Clock \cup
    { [s |-> NaiveSeconds(Leap0229) - 2, us |-> 0],
      [s |-> NaiveSeconds(Leap0229) - 1, us |-> 500000],
      [s |-> ShortLifeEnd, us |-> 500000],
      [s |-> NaiveSeconds(Leap0229) + 40 * SecondsInTenthYear, us |-> 250000] }

----------------------------------------------------------------------------
(* Actions *)

Init ==
    /\ form \in Forms
    /\ calc = NoCalculation
    /\ handle = [s \in Slots |-> 0]
    /\ timers = <<>>
    /\ dom = [e \in ElemIds |-> AbsentElement]
    /\ runs = 0

\* A widget changes: the script runs again with the button not pressed (line 196),
\* so nothing of lines 197-420 is rendered and the page loses the components.
\* The intervals are not touched.
Rerun ==
    /\ \E f \in Forms : f # form /\ form' = f
    /\ dom' = [e \in ElemIds |-> AbsentElement]
    /\ UNCHANGED <<calc, handle, timers, runs>>

\* lines 198-346 for the forms and the clock readings of Spec
CalculationTable ==
    {[form |-> f, now |-> n, calculation |-> Calculation(f, n)] :
        f \in Forms, n \in Clock}

\* lines 198-346 compute a function of the form and the clock
Calculated(f, now) ==
    IF f \in Forms /\ now \in Clock
    THEN (CHOOSE t \in CalculationTable : t.form = f /\ t.now = now).calculation
    ELSE Calculation(f, now)

\* The button is pressed (lines 196-420). The components' document either keeps
\* the window of the previous run or is loaded afresh (reload: no slot set, no
\* interval left from before).
Calculate(now, reload) ==
    /\ runs < MaxRuns
    /\ calc' = Calculated(form, now)
    /\ dom' = rendered(calc')
    /\ \E w0 \in {IF reload THEN [handle |-> [s \in Slots |-> 0], timers |-> <<>>]
                             ELSE [handle |-> handle, timers |-> timers]} :
       \E w1 \in {run_script(w0, GlobalSlot, global_entries(calc'))} :
       \E w2 \in {run_script(w1, "top_countries", js_entries_for_interval(calc'.top))} :
       \E w3 \in {run_script(w2, "bottom_countries",
                              js_entries_for_interval(calc'.bottom))} :
           /\ handle' = w3.handle
           /\ timers' = collected(w3.timers)
    /\ runs' = runs + 1
    /\ UNCHANGED form

Press == \E now \in Clock, reload \in BOOLEAN : Calculate(now, reload)

\* the interval's callback would find the element of one of its counters missing
FindsMissing(id) ==
    \E k \in DOMAIN timers[id].entries : ~dom[timers[id].entries[k].id].present

\* MaxTicks bounds the callbacks that run between two button presses. A callback
\* that finds an element missing is not held back by it: the browser runs it, and
\* it is the last of its interval.
MayRun(id) == TotalTicks(timers) < MaxTicks \/ FindsMissing(id)

\* the global countdown's interval fires
TickGlobal ==
    \E id \in DOMAIN timers :
        /\ timers[id].live
        /\ timers[id].slot = GlobalSlot
        /\ MayRun(id)
        /\ LET st == global_callback([handle |-> handle, timers |-> timers, dom |-> dom], id)
           IN  /\ timers' = st.timers
               /\ dom' = st.dom
        /\ UNCHANGED <<form, calc, handle, runs>>

\* a table's interval fires
TickTable ==
    \E id \in DOMAIN timers :
        /\ timers[id].live
        /\ timers[id].slot \in Prefixes
        /\ MayRun(id)
        /\ LET st == table_callback([handle |-> handle, timers |-> timers, dom |-> dom], id)
           IN  /\ timers' = st.timers
               /\ dom' = st.dom
        /\ UNCHANGED <<form, calc, handle, runs>>

\* the ids of the elements the last button press rendered
RenderedIds(c) ==
    IF c.done
    THEN {GlobalTimerId} \cup {c.top[k].id : k \in DOMAIN c.top}
                         \cup {c.bottom[k].id : k \in DOMAIN c.bottom}
    ELSE {}

Missing == {e \in RenderedIds(calc) : ~dom[e].present}

\* an element leaves the document (the case lines 290-296 and 399-405 test for)
RemoveElement ==
    \E e \in ElemIds :
        /\ dom[e].present
        /\ Cardinality(Missing) < MaxRemovals
        /\ dom' = [dom EXCEPT ![e] = AbsentElement]
        /\ UNCHANGED <<form, calc, handle, timers, runs>>

Next == Rerun \/ Press \/ TickGlobal \/ TickTable \/ RemoveElement

Spec == Init /\ [][Next]_vars

\* setInterval(..., 1000) (lines 287, 395): while the window lives the browser runs
\* the callback of an interval that has not been cleared, again and again.
SpecFair == Spec /\ WF_vars(TickGlobal) /\ WF_vars(TickTable)

\* The calculation alone, over all the inputs: one button press on a fresh page
InitCalc ==
    /\ form \in AllForms
    /\ calc = NoCalculation
    /\ handle = [s \in Slots |-> 0]
    /\ timers = <<>>
    /\ dom = [e \in ElemIds |-> AbsentElement]
    /\ runs = 0

FirstPress == \E now \in AllClock : runs = 0 /\ Calculate(now, FALSE)

SpecCalc == InitCalc /\ [][FirstPress]_vars

----------------------------------------------------------------------------
(* Properties of the countdowns, under Spec *)

Max0(n) == IF n < 0 THEN 0 ELSE n

\* the counters of interval id: the positions of its entries
Counters(id) == DOMAIN timers[id].entries

\* C1: every counter (the global countdown and every table row) seeded with v
\* shows max(0, v - n) after n runs of its interval's callback: one less per run,
\* never negative, and 0 for good once 0 is reached.
CountdownValue ==
    \A id \in DOMAIN timers : \A k \in Counters(id) :
        /\ timers[id].entries[k].cnt = Max0(timers[id].seeds[k] - timers[id].ticks)
        /\ timers[id].entries[k].cnt >= 0

\* C1 witness: a global countdown seeded with 1 has ticked twice and stays at 0
CountdownValueWitness ==
    /\ \E id \in DOMAIN timers :
          /\ timers[id].slot = GlobalSlot
          /\ timers[id].seeds = <<1>>
          /\ timers[id].ticks = 2
          /\ timers[id].entries[1].cnt = 0

\* C10: after any sequence of button presses in one window each slot has at most
\* one live interval, and a live interval is the one its slot names.
OneLiveIntervalPerSlot ==
    /\ \A s \in Slots :
          Cardinality({id \in DOMAIN timers : timers[id].live /\ timers[id].slot = s}) <= 1
    /\ \A id \in DOMAIN timers : timers[id].live => handle[timers[id].slot] = id

\* C10 witness: a second press in the same window cleared the three intervals of
\* the first, which were all live, and started three more
OneLiveIntervalPerSlotWitness ==
    /\ runs = 2
    /\ Len(timers) = 6
    /\ \A id \in 1..3 : ~timers[id].live
    /\ \A id \in 4..6 : timers[id].live

\* a step in which one interval's callback runs
TickStep == TotalTicks(timers') = TotalTicks(timers) + 1

\* the interval whose callback runs in a TickStep
Ticking == CHOOSE id \in DOMAIN timers : timers'[id].ticks # timers[id].ticks

\* the elements the counters of interval id write to
ElementsOf(id) == {timers[id].entries[k].id : k \in Counters(id)}

\* the run of one interval's callback leaves every other interval (its counters'
\* values, whether it is live), every other interval's elements and the slots alone
OtherIntervalsUntouched ==
    /\ \A id \in DOMAIN timers \ {Ticking} : timers'[id] = timers[id]
    /\ \A e \in ElemIds \ ElementsOf(Ticking) : dom'[e] = dom[e]
    /\ handle' = handle

\* a counter that is ticking and whose own element is in the document is still
\* ticking after the step: nothing but its own teardown ends its schedule
PresentCountersKeepTicking ==
    \A id \in DOMAIN timers : \A k \in Counters(id) :
        (timers[id].live /\ dom[timers[id].entries[k].id].present) => timers'[id].live

\* C7 as stated: a tick never changes the value, display or schedule of another
\* counter, between the intervals and between the rows of one table. It fails: the
\* rows of a table share one interval, and the tick of a row whose cell is missing
\* cancels it for the rows whose cells are there.
CountersIndependent ==
    [][TickStep => (OtherIntervalsUntouched /\ PresentCountersKeepTicking)]_vars

\* C7 amended: the run of one interval's callback (the global countdown's, the top
\* table's or the bottom table's) never changes the value, the display or the
\* schedule of a counter driven by another interval.
IntervalsIndependent == [][TickStep => OtherIntervalsUntouched]_vars

\* C7 witness: a table's callback found one row's cell missing and cancelled the
\* table's interval while another row's cell is in the document; the global
\* countdown and the other table are still live
IntervalsIndependentWitness ==
    /\ \E id \in DOMAIN timers :
          /\ timers[id].slot \in Prefixes
          /\ ~timers[id].live
          /\ \E k \in Counters(id) : timers[id].late[k] = 1
          /\ \E j \in Counters(id) : dom[timers[id].entries[j].id].present
    /\ \E g \in DOMAIN timers : timers[g].slot = GlobalSlot /\ timers[g].live
    /\ Cardinality({id \in DOMAIN timers : timers[id].live}) = 2

\* C8 as stated: no callback of a counter runs once its element has been removed.
\* It fails: nothing cancels the interval at removal, its next callback runs.
NoTickAfterTeardown ==
    \A id \in DOMAIN timers : \A k \in Counters(id) : timers[id].late[k] = 0

\* C8 amended: once a counter's element has been removed the callback of its
\* interval runs at most once more (that run counts down, writes nothing for the
\* counter and cancels the interval).
AtMostOneTickAfterTeardown ==
    \A id \in DOMAIN timers : \A k \in Counters(id) :
        /\ timers[id].late[k] <= 1
        /\ timers[id].late[k] = 1 => ~timers[id].live

\* C8 witness: the global countdown's element was removed, the callback ran once
\* more, counted down and cancelled the interval
AtMostOneTickAfterTeardownWitness ==
    \E id \in DOMAIN timers :
        /\ timers[id].slot = GlobalSlot
        /\ timers[id].late = <<1>>
        /\ ~timers[id].live
        /\ timers[id].seeds[1] >= 2
        /\ timers[id].entries[1].cnt < timers[id].seeds[1]
        /\ ~dom[GlobalTimerId].present

----------------------------------------------------------------------------
(* The guard of a callback against a missing element, under SpecFair *)

\* the callback that runs in a TickStep writes nothing for a counter whose element
\* it finds missing, and its interval is cleared when it returns
MissingElementGuard ==
    \A k \in Counters(Ticking) :
        LET e == timers[Ticking].entries[k].id
        IN  ~dom[e].present => (~dom'[e].present /\ ~timers'[Ticking].live)

\* the step is not the first one of a window loaded afresh: no button is pressed,
\* or the press adds its three intervals to those of the window
SameWindow == runs' = runs \/ Len(timers') > Len(timers)

\* the callback of a cleared interval does not run, and the interval stays cleared
ClearedNeverRuns ==
    \A id \in DOMAIN timers :
        ~timers[id].live =>
            /\ id \in DOMAIN timers'
            /\ ~timers'[id].live
            /\ timers'[id].ticks <= timers[id].ticks

\* the slot's interval is live while the element of one of its counters is missing
Torn(s) ==
    \E id \in DOMAIN timers :
        timers[id].slot = s /\ timers[id].live /\ FindsMissing(id)

\* C11: a callback that finds the element of one of its counters missing writes
\* to no element for that counter and clears the interval that runs it; a cleared
\* interval's callback never runs again; and an interval with a missing element
\* does not stay live for ever: its schedule stops.
DisposedCounterGuard ==
    /\ [][TickStep => MissingElementGuard]_vars
    /\ [][SameWindow => ClearedNeverRuns]_vars
    /\ \A s \in Slots : Torn(s) ~> ~Torn(s)

\* C11 witness: the page lost its components with the three intervals live; each
\* callback ran once more, found its elements missing, wrote nothing and cleared
\* its interval
DisposedCounterGuardWitness ==
    /\ Len(timers) = 3
    /\ \A e \in ElemIds : ~dom[e].present
    /\ \A id \in DOMAIN timers :
          /\ ~timers[id].live
          /\ timers[id].ticks = 1
          /\ \A k \in Counters(id) : timers[id].late[k] = 1

----------------------------------------------------------------------------
(* Properties of the calculation, under SpecCalc *)

\* the birth and a projected naive datetime as absolute instants (UTC seconds)
BirthInstant == NaiveSeconds(calc.form.birth) - calc.form.utcoffset
InstantOf(naive) == naive - calc.form.utcoffset

\* the instant t (whole seconds) is earlier than the clock's reading
Precedes(t, clock) == t < clock.s \/ (t = clock.s /\ clock.us > 0)

\* the rows of both tables with the slot of their interval
TableRows ==
    {[slot |-> "top_countries", k |-> k, row |-> calc.top[k]] : k \in DOMAIN calc.top}
        \cup {[slot |-> "bottom_countries", k |-> k, row |-> calc.bottom[k]] :
                  k \in DOMAIN calc.bottom}

\* C2: the seconds remaining of the primary person and of every table row are
\* >= 0, are 0 when the projected death precedes now, and are the values the
\* counters and their elements start from.
SecondsRemainingClamped ==
    calc.done =>
        /\ calc.seconds_left >= 0
        /\ Precedes(InstantOf(calc.death), calc.now) => calc.seconds_left = 0
        /\ timers[handle[GlobalSlot]].seeds = <<calc.seconds_left>>
        /\ dom[GlobalTimerId].n = calc.seconds_left
        /\ \A r \in TableRows :
              /\ r.row.seconds_left_country >= 0
              /\ Precedes(InstantOf(r.row.projected_dt_country), calc.now)
                     => r.row.seconds_left_country = 0
              /\ timers[handle[r.slot]].seeds[r.k] = r.row.seconds_left_country
              /\ dom[r.row.id].n = r.row.seconds_left_country

\* C2 witness: now is five seconds after the projected death of the primary person
\* and of a table row; both counters are seeded with 0
SecondsRemainingClampedWitness ==
    /\ calc.done
    /\ InstantOf(calc.death) + 5 = calc.now.s
    /\ timers[handle[GlobalSlot]].seeds = <<0>>
    /\ \E r \in TableRows :
          /\ InstantOf(r.row.projected_dt_country) + 5 = calc.now.s
          /\ timers[handle[r.slot]].seeds[r.k] = 0

\* C3: the effective life expectancy is base + adjustment when that is at least
\* 0.1 year and 0.1 year otherwise, hence never zero or negative; the table rows
\* are clamped the same way.
EffectiveLifeExpectancyFloor ==
    calc.done =>
        /\ calc.base >= 0
        /\ LET sum == calc.base + 10 * calc.adjustment
           IN  calc.effective = IF sum >= 1 THEN sum ELSE 1
        /\ calc.effective > 0
        /\ \A r \in TableRows :
              LET sum == Column(r.row.idx, sort_column(calc.form)) + 10 * calc.adjustment
              IN  /\ r.row.current_le = IF sum >= 1 THEN sum ELSE 1
                  /\ r.row.current_le > 0

\* C3 witness: base 5.0 with cancer alone is 0.1, and a table row is clamped too
EffectiveLifeExpectancyFloorWitness ==
    /\ calc.done
    /\ calc.base = 50
    /\ calc.adjustment = -8
    /\ calc.effective = 1
    /\ \E r \in TableRows :
          /\ Column(r.row.idx, sort_column(calc.form)) + 10 * calc.adjustment < 0
          /\ r.row.current_le = 1

\* the adjustments as the tables of the specification give them, in years
GymYears(since) ==
    CASE since = "None" -> 0
      [] since = "Less than a year" -> 1
      [] since = "Between 1 and 3 years" -> 4
      [] since = "More than 3 years" -> 7

SmokeYears(since) ==
    CASE since = "None" -> 0
      [] since = "Less than a year" -> -1
      [] since = "Between 1 and 5 years" -> -3
      [] since = "Between 5 and 10 years" -> -5
      [] since = "More than 10 years" -> -10

CancerYears(choice) == CASE choice = "Yes" -> -8 [] choice = "No" -> 0

\* C5: the adjustment is the sum of the gym, smoking and cancer table values for
\* every combination of the three selections, and 0 when all three are No.
LifestyleAdjustmentIsSum ==
    calc.done =>
        /\ calc.adjustment = GymYears(calc.form.gym.since)
                                + SmokeYears(calc.form.smoke.since)
                                + CancerYears(calc.form.cancer_choice)
        /\ (/\ calc.form.gym.choice = "No"
            /\ calc.form.smoke.choice = "No"
            /\ calc.form.cancer_choice = "No") => calc.adjustment = 0

\* C5 witness: the three factors together: 5-10 years of smoking, 1-3 years of
\* gym, cancer
LifestyleAdjustmentIsSumWitness ==
    /\ calc.done
    /\ calc.form.gym.since = "Between 1 and 3 years"
    /\ calc.form.smoke.since = "Between 5 and 10 years"
    /\ calc.form.cancer_choice = "Yes"
    /\ calc.adjustment = -9

\* the calendar date and time of day of a naive datetime given in seconds
CivilOf(secs) ==
    LET ord == (secs \div SecondsInDay) + ToOrdinal(2000, 1, 1)
        y == CHOOSE y \in 1999..2040 :
                 DaysBeforeYear(y) < ord /\ ord <= DaysBeforeYear(y + 1)
        n == ord - DaysBeforeYear(y)
        m == CHOOSE m \in 1..12 :
                 DaysBeforeMonth(y, m) < n /\ n <= DaysBeforeMonth(y, m) + DaysInMonth(y, m)
    IN  [y |-> y, m |-> m, d |-> n - DaysBeforeMonth(y, m), sod |-> secs % SecondsInDay]

\* the birth's date and time of day, years later; a 29 February stays one
SameDateYearsLater(birth, years) == [birth EXCEPT !.y = birth.y + years]

\* the same, with 29 February moved to 28 February in a year that has none
AnniversaryYearsLater(birth, years) ==
    [birth EXCEPT !.y = birth.y + years,
                  !.d = IF birth.m = 2 /\ birth.d = 29 /\ ~IsLeap(birth.y + years)
                        THEN 28 ELSE birth.d]

\* C4 as stated, in its particular case: with a fractional part of 0 the projected
\* death has the calendar date and time of day of the birth, floor(effective)
\* years later. It fails for a birth on 29 February and a year without one.
WholeYearsSameDate ==
    (calc.done /\ calc.effective % 10 = 0) =>
        CivilOf(calc.death) = SameDateYearsLater(calc.form.birth, calc.effective \div 10)

\* C4 amended: the projected death is the birth moved floor(effective) calendar
\* years on (same month, day and time of day, 29 February becoming 28 February in
\* a year that is not a leap year) plus frac(effective) * 365.25 days of elapsed
\* time, for the primary person and for every table row.
ProjectedDeathInstant ==
    calc.done =>
        /\ CivilOf(calc.death - (calc.effective % 10) * SecondsInTenthYear)
               = AnniversaryYearsLater(calc.form.birth, calc.effective \div 10)
        /\ \A r \in TableRows :
              CivilOf(r.row.projected_dt_country
                          - (r.row.current_le % 10) * SecondsInTenthYear)
                  = AnniversaryYearsLater(calc.form.birth, r.row.current_le \div 10)

\* C4 witness: a birth on 29 February 2000 with 5.0 years projects to 28 February
\* 2005 at the same time of day, and a table row has a fractional part
ProjectedDeathInstantWitness ==
    /\ calc.done
    /\ calc.form.birth.m = 2 /\ calc.form.birth.d = 29
    /\ calc.effective = 50
    /\ CivilOf(calc.death) = [y |-> 2005, m |-> 2, d |-> 28, sod |-> calc.form.birth.sod]
    /\ \E r \in TableRows : r.row.current_le % 10 # 0

\* C6 as stated: seconds lived is never negative. It fails when now is a second
\* or more before the birth.
SecondsLivedNonNegative == calc.done => calc.seconds_lived >= 0

\* C6 amended: seconds lived is the difference now - birth cut to whole seconds
\* towards zero and is not clamped: it is >= 0 when now is not before the birth,
\* 0 when now is less than a second before it, and negative when now is a second
\* or more before it; only seconds remaining is clamped.
SecondsLivedTruncated ==
    calc.done =>
        LET whole == calc.now.s - BirthInstant
        IN  /\ calc.seconds_lived =
                   IF whole < 0 /\ calc.now.us > 0 THEN whole + 1 ELSE whole
            /\ calc.now.s >= BirthInstant => calc.seconds_lived >= 0
            /\ calc.now.s + 1 = BirthInstant /\ calc.now.us > 0
                   => calc.seconds_lived = 0
            /\ calc.now.s + 1 <= BirthInstant /\ calc.now.us = 0
                   => calc.seconds_lived < 0
            /\ calc.seconds_left >= 0

\* C6 witness: now is two seconds before the birth and seconds lived is -2
SecondsLivedTruncatedWitness ==
    /\ calc.done
    /\ calc.now.s + 2 = BirthInstant
    /\ calc.now.us = 0
    /\ calc.seconds_lived = -2

\* the form of the last calculation with other lifestyle selections
OtherLifestyles ==
    {[calc.form EXCEPT !.gym = g, !.smoke = k, !.cancer_choice = c] :
        g \in GymInputs, k \in SmokeInputs, c \in {"No", "Yes"}}

EffectiveOf(f) ==
    effective_life_expectancy(base_life_expectancy(f), life_expectancy_adjustment(f))

DeathOf(f) == projected_death_datetime(f.birth, EffectiveOf(f))

\* C9 as stated: a strictly larger adjustment gives a strictly larger effective
\* life expectancy and a strictly later death. It fails where the floor applies
\* to both sums.
StrictlyMonotone ==
    calc.done =>
        \A g \in OtherLifestyles :
            life_expectancy_adjustment(g) > calc.adjustment
                => (EffectiveOf(g) > calc.effective /\ DeathOf(g) > calc.death)

\* C9 amended: for a fixed base and birth a strictly larger adjustment never gives
\* a smaller effective life expectancy or an earlier death, and gives strictly
\* larger ones whenever base + the larger adjustment is above the 0.1 floor.
MonotoneAboveFloor ==
    calc.done =>
        \A g \in OtherLifestyles :
            life_expectancy_adjustment(g) > calc.adjustment
                => /\ EffectiveOf(g) >= calc.effective
                   /\ DeathOf(g) >= calc.death
                   /\ calc.base + 10 * life_expectancy_adjustment(g) > 1
                          => (EffectiveOf(g) > calc.effective /\ DeathOf(g) > calc.death)

\* C9 witness: base 5.0 with 10 years of smoking and cancer is at the floor;
\* dropping the smoking penalty leaves it there, adding the gym lifts it
MonotoneAboveFloorWitness ==
    /\ calc.done
    /\ calc.base = 50
    /\ calc.adjustment = -18
    /\ \E g \in OtherLifestyles :
          /\ life_expectancy_adjustment(g) = -8
          /\ EffectiveOf(g) = calc.effective
          /\ DeathOf(g) = calc.death
    /\ \E g \in OtherLifestyles :
          /\ life_expectancy_adjustment(g) = -1
          /\ EffectiveOf(g) > calc.effective
          /\ DeathOf(g) > calc.death

\* the base figure of a row's country: the column of the sex chosen (line 322)
RowBase(r) == Column(r.row.idx, sort_column(calc.form))

\* a row's figures are those lines 233-255 give for the row's base figure with the
\* primary person's adjustment, birth, time zone and clock reading
RowAsPrimary(r) ==
    LET effective == effective_life_expectancy(RowBase(r), calc.adjustment)
        death == projected_death_datetime(calc.form.birth, effective)
    IN  /\ r.row.current_le = effective
        /\ r.row.projected_dt_country = death
        /\ r.row.seconds_left_country = seconds_left(death, calc.form.utcoffset, calc.now)

\* C12: every row of both tables is projected from the primary person's birth,
\* clock reading and lifestyle adjustment and the row's own base figure; a row
\* whose base figure is the primary person's has the primary person's projected
\* death, seconds left and counter seed.
RowsProjectedAsPrimary ==
    calc.done =>
        \A r \in TableRows :
            /\ RowAsPrimary(r)
            /\ RowBase(r) = calc.base =>
                  /\ r.row.projected_dt_country = calc.death
                  /\ r.row.seconds_left_country = calc.seconds_left
                  /\ timers[handle[r.slot]].seeds[r.k]
                         = timers[handle[GlobalSlot]].seeds[1]

\* C12 witness: the lifestyle adjustment is not 0 and leaves the primary person
\* above the floor with time left; the row of the primary person's country has
\* the same death and seconds left, a row of another country has not
RowsProjectedAsPrimaryWitness ==
    /\ calc.done
    /\ calc.adjustment # 0
    /\ calc.effective = calc.base + 10 * calc.adjustment
    /\ calc.seconds_left > 0
    /\ \E r \in TableRows :
          /\ r.row.Country = calc.form.country
          /\ RowBase(r) = calc.base
          /\ r.row.projected_dt_country = calc.death
          /\ r.row.seconds_left_country = calc.seconds_left
    /\ \E q \in TableRows :
          /\ RowBase(q) # calc.base
          /\ q.row.projected_dt_country # calc.death
          /\ q.row.seconds_left_country # calc.seconds_left

====
